---- MODULE Spec2Model ----
(***************************************************************************)
(* Model of bot.py, the CebuPolitics news bot: two source adapters, the    *)
(* near-duplicate de-dupe, the freshness/seen filter, the per-run cap, the *)
(* publish loop and the persisted seen set (posted.json).                  *)
(*                                                                         *)
(* A title is a sequence of one-character strings.  A URL is an opaque     *)
(* string: main() only compares URLs for equality and set membership.      *)
(***************************************************************************)
EXTENDS Integers, Sequences, FiniteSets, TLC

(***************************************************************************)
(* Bounds of the model.                                                    *)
(***************************************************************************)
MaxRuns == 2
MaxLen == 3

(***************************************************************************)
(* Program constants.                                                      *)
(***************************************************************************)
MAX_POSTS_PER_RUN == 5

(***************************************************************************)
(* Characters.  \w is letters, digits and underscore; \s is whitespace;    *)
(* everything else is stripped by norm_title as punctuation.               *)
(***************************************************************************)
LowerLetters ==
    <<"a","b","c","d","e","f","g","h","i","j","k","l","m",
      "n","o","p","q","r","s","t","u","v","w","x","y","z">>

UpperLetters ==
    <<"A","B","C","D","E","F","G","H","I","J","K","L","M",
      "N","O","P","Q","R","S","T","U","V","W","X","Y","Z">>

Digits == {"0","1","2","3","4","5","6","7","8","9"}

WhiteSpace == {" ", "\t", "\n"}

IsWordChar(c) ==
    \/ \E i \in 1..26 : c = LowerLetters[i] \/ c = UpperLetters[i]
    \/ c \in Digits
    \/ c = "_"

IsSpace(c) == c \in WhiteSpace

\* str.lower() on one character
LowerChar(c) ==
    IF \E i \in 1..26 : c = UpperLetters[i]
    THEN LowerLetters[CHOOSE i \in 1..26 : c = UpperLetters[i]]
    ELSE c

\* html.unescape, for the references "&amp;" "&lt;" "&gt;" (the only ones
\* the titles of this model can spell); any other text is left as it is.
RECURSIVE Unescape(_)
Unescape(t) ==
    IF t = <<>> THEN <<>>
    ELSE IF Len(t) >= 5 /\ SubSeq(t, 1, 5) = <<"&","a","m","p",";">>
         THEN <<"&">> \o Unescape(SubSeq(t, 6, Len(t)))
    ELSE IF Len(t) >= 4 /\ SubSeq(t, 1, 4) = <<"&","l","t",";">>
         THEN <<"<">> \o Unescape(SubSeq(t, 5, Len(t)))
    ELSE IF Len(t) >= 4 /\ SubSeq(t, 1, 4) = <<"&","g","t",";">>
         THEN <<">">> \o Unescape(SubSeq(t, 5, Len(t)))
    ELSE <<Head(t)>> \o Unescape(Tail(t))

\* str.lower()
Lower(t) == [i \in 1..Len(t) |-> LowerChar(t[i])]

\* re.sub(r"\s+", " ", t): every maximal run of whitespace becomes one space
RECURSIVE CollapseSpace(_)
CollapseSpace(t) ==
    IF t = <<>> THEN <<>>
    ELSE IF IsSpace(Head(t))
         THEN IF Len(t) >= 2 /\ IsSpace(t[2])
              THEN CollapseSpace(Tail(t))
              ELSE <<" ">> \o CollapseSpace(Tail(t))
         ELSE <<Head(t)>> \o CollapseSpace(Tail(t))

\* re.sub(r"[^\w\s]", "", t): drop what is neither a word character nor space
StripPunct(t) == SelectSeq(t, LAMBDA c : IsWordChar(c) \/ IsSpace(c))

\* str.strip(): drop leading and trailing whitespace
RECURSIVE LStrip(_)
LStrip(t) ==
    IF t # <<>> /\ IsSpace(Head(t)) THEN LStrip(Tail(t)) ELSE t

RECURSIVE RStrip(_)
RStrip(t) ==
    IF t # <<>> /\ IsSpace(t[Len(t)])
    THEN RStrip(SubSeq(t, 1, Len(t) - 1)) ELSE t

Strip(t) == RStrip(LStrip(t))

norm_title(t) == Strip(StripPunct(CollapseSpace(Lower(Unescape(t)))))

\* str.split(): the maximal runs of non-whitespace characters
RECURSIVE SplitFrom(_, _)
SplitFrom(t, cur) ==
    IF t = <<>>
    THEN IF cur = <<>> THEN <<>> ELSE <<cur>>
    ELSE IF IsSpace(Head(t))
         THEN IF cur = <<>> THEN SplitFrom(Tail(t), <<>>)
              ELSE <<cur>> \o SplitFrom(Tail(t), <<>>)
         ELSE SplitFrom(Tail(t), Append(cur, Head(t)))

Split(t) == SplitFrom(t, <<>>)

token_set(s) ==
    LET ws == Split(norm_title(s))
    IN  {ws[i] : i \in {j \in 1..Len(ws) : ws[j] # <<>> /\ Len(ws[j]) > 2}}

(***************************************************************************)
(* difflib.SequenceMatcher(None, a, b).ratio(): 2*M / (len(a)+len(b)),     *)
(* where M is the total size of the matching blocks: the longest common    *)
(* block (earliest in a, then earliest in b, among the longest), then the  *)
(* same to the left and to the right of it.  No junk; the autojunk         *)
(* heuristic only acts on sequences of 200 or more elements.               *)
(***************************************************************************)
RECURSIVE CommonPrefixLen(_, _, _, _, _, _)
CommonPrefixLen(a, i, ahi, b, j, bhi) ==
    IF i <= ahi /\ j <= bhi /\ a[i] = b[j]
    THEN 1 + CommonPrefixLen(a, i + 1, ahi, b, j + 1, bhi)
    ELSE 0

SetMax(S) == CHOOSE x \in S : \A y \in S : y <= x
SetMin(S) == CHOOSE x \in S : \A y \in S : x <= y

\* <<i, j, k>>: a[i..i+k-1] = b[j..j+k-1], k maximal, then i minimal, then j
find_longest_match(a, alo, ahi, b, blo, bhi) ==
    LET P == (alo..ahi) \X (blo..bhi)
        K(p) == CommonPrefixLen(a, p[1], ahi, b, p[2], bhi)
    IN  IF P = {} THEN <<alo, blo, 0>>
        ELSE LET k == SetMax({K(p) : p \in P})
             IN  IF k = 0 THEN <<alo, blo, 0>>
                 ELSE LET L == {p \in P : K(p) = k}
                          i == SetMin({p[1] : p \in L})
                          j == SetMin({p[2] : p \in {q \in L : q[1] = i}})
                      IN  <<i, j, k>>

RECURSIVE Matches(_, _, _, _, _, _)
Matches(a, alo, ahi, b, blo, bhi) ==
    LET m == find_longest_match(a, alo, ahi, b, blo, bhi)
    IN  IF m[3] = 0 THEN 0
        ELSE m[3]
             + Matches(a, alo, m[1] - 1, b, blo, m[2] - 1)
             + Matches(a, m[1] + m[3], ahi, b, m[2] + m[3], bhi)

\* ratio() >= 0.82, in integers: 2*M/T >= 82/100  (T = 0 gives ratio 1.0)
RatioAtLeast82(na, nb) ==
    LET T == Len(na) + Len(nb)
        M == Matches(na, 1, Len(na), nb, 1, Len(nb))
    IN  IF T = 0 THEN TRUE ELSE 200 * M >= 82 * T

Max(x, y) == IF x >= y THEN x ELSE y
Min(x, y) == IF x <= y THEN x ELSE y

\* near_duplicate without the "if not na or not nb" test
near_duplicate_unguarded(a, b) ==
    LET na == norm_title(a)
        nb == norm_title(b)
        ta == token_set(a)
        tb == token_set(b)
    IN  \/ /\ ta # {} /\ tb # {}
           /\ 4 * Cardinality(ta \cap tb)
                  >= 3 * Max(1, Cardinality(ta \cup tb))
        \/ RatioAtLeast82(na, nb)

near_duplicate(a, b) ==
    LET na == norm_title(a)
        nb == norm_title(b)
        ta == token_set(a)
        tb == token_set(b)
    IN  IF na = <<>> \/ nb = <<>> THEN FALSE
        ELSE \/ /\ ta # {} /\ tb # {}
                \* jacc >= 0.75
                /\ 4 * Cardinality(ta \cap tb)
                       >= 3 * Max(1, Cardinality(ta \cup tb))
             \/ RatioAtLeast82(na, nb)

\* dedupe_by_similarity comparing against every earlier item, kept or not
RECURSIVE DedupeAgainstAll(_, _)
DedupeAgainstAll(items, n) ==
    IF n = 0 THEN <<>>
    ELSE LET rest == DedupeAgainstAll(items, n - 1)
         IN  IF \E k \in 1..(n - 1) :
                    near_duplicate(items[n].title, items[k].title)
             THEN rest ELSE Append(rest, items[n])

dedupe_against_all(items) == DedupeAgainstAll(items, Len(items))

RECURSIVE DedupeFrom(_, _)
DedupeFrom(items, kept) ==
    IF items = <<>> THEN kept
    ELSE LET it == Head(items)
         IN  IF ~ \E k \in 1..Len(kept) :
                      near_duplicate(it.title, kept[k].title)
             THEN DedupeFrom(Tail(items), Append(kept, it))
             ELSE DedupeFrom(Tail(items), kept)

dedupe_by_similarity(items) == DedupeFrom(items, <<>>)

(***************************************************************************)
(* Titles used as source data.                                             *)
(***************************************************************************)
\* "Cebu port fire kills two"
T_FireTwo ==
    <<"C","e","b","u"," ","p","o","r","t"," ","f","i","r","e"," ",
      "k","i","l","l","s"," ","t","w","o">>

\* "Cebu port fire kills"
T_Fire ==
    <<"C","e","b","u"," ","p","o","r","t"," ","f","i","r","e"," ",
      "k","i","l","l","s">>

\* "Cebu port fire kills six men"
T_FireSix ==
    <<"C","e","b","u"," ","p","o","r","t"," ","f","i","r","e"," ",
      "k","i","l","l","s"," ","s","i","x"," ","m","e","n">>

\* "Cebu port fire: kills two!"
T_FirePunct ==
    <<"C","e","b","u"," ","p","o","r","t"," ","f","i","r","e",":"," ",
      "k","i","l","l","s"," ","t","w","o","!">>

\* "Council OKs budget"
T_Council ==
    <<"C","o","u","n","c","i","l"," ","O","K","s"," ","b","u","d","g","e","t">>

\* "Mayor vetoes tax"
T_Mayor ==
    <<"M","a","y","o","r"," ","v","e","t","o","e","s"," ","t","a","x">>

\* "Flood shuts roads"
T_Flood ==
    <<"F","l","o","o","d"," ","s","h","u","t","s"," ","r","o","a","d","s">>

\* "Bus fares go up"
T_Bus ==
    <<"B","u","s"," ","f","a","r","e","s"," ","g","o"," ","u","p">>

\* "New bridge opens"
T_Bridge ==
    <<"N","e","w"," ","b","r","i","d","g","e"," ","o","p","e","n","s">>

\* "Dengue cases rise"
T_Dengue ==
    <<"D","e","n","g","u","e"," ","c","a","s","e","s"," ","r","i","s","e">>

\* "Cebu"
T_Short ==
    <<"C","e","b","u">>

\* "Watch live"
T_Watch ==
    <<"W","a","t","c","h"," ","l","i","v","e">>

\* "!!!!!!!!"
T_Bangs ==
    <<"!","!","!","!","!","!","!","!">>

(***************************************************************************)
(* The scrapers.  A page is the sequence of its anchors whose href passed  *)
(* the adapter's site test, with the text and the absolute href of each.   *)
(***************************************************************************)
SUNSTAR == "SunStar Cebu"
CDN == "CDN Digital (via Inquirer)"

Link(u, t) == [title |-> t, url |-> u]

StartsWith(t, p) == Len(t) >= Len(p) /\ SubSeq(t, 1, Len(p)) = p

\* the "de-dupe by URL" loop of both scrapers: first occurrence of a URL
RECURSIVE UniqFrom(_, _, _)
UniqFrom(out, seen, uniq) ==
    IF out = <<>> THEN uniq
    ELSE IF Head(out).url \notin seen
         THEN UniqFrom(Tail(out), seen \cup {Head(out).url},
                       Append(uniq, Head(out)))
         ELSE UniqFrom(Tail(out), seen, uniq)

UniqByUrl(out) == UniqFrom(out, {}, <<>>)

Candidates(links, src) ==
    [i \in 1..Len(links) |->
        [title |-> links[i].title, url |-> links[i].url, source |-> src]]

scrape_sunstar_local(page) ==
    UniqByUrl(SelectSeq(Candidates(page, SUNSTAR),
                        LAMBDA it : it.title # <<>> /\ Len(it.title) > 6))

scrape_cdn_latest(page) ==
    UniqByUrl(SelectSeq(Candidates(page, CDN),
        LAMBDA it :
            /\ it.title # <<>> /\ Len(it.title) > 6
            /\ ~ StartsWith(Lower(it.title),
                            <<"r","e","a","d"," ","m","o","r","e">>)
            /\ ~ StartsWith(Lower(it.title), <<"w","a","t","c","h">>)
            /\ ~ StartsWith(Lower(it.title), <<"l","i","s","t","e","n">>)))

(***************************************************************************)
(* posted.json.  The file is absent, holds text json.loads rejects (also   *)
(* an empty or cut-off file), or holds a JSON value.  The entries of an    *)
(* array are strings, or JSON numbers (the members of JsonNumbers).        *)
(***************************************************************************)
JsonNumbers == {"#7"}

Absent == [kind |-> "absent", elems |-> <<>>]
BadText == [kind |-> "text", elems |-> <<>>]
JsonArray(es) == [kind |-> "array", elems |-> es]
JsonObject(ks) == [kind |-> "object", elems |-> ks]
JsonString(cs) == [kind |-> "string", elems |-> cs]
JsonNumber == [kind |-> "number", elems |-> <<>>]

Range(s) == {s[i] : i \in 1..Len(s)}

\* load_state that never finds the file
load_state_lost(f) == {}

\* set(json.loads(text)): the entries of an array, the keys of an object,
\* the characters of a string; any exception gives the empty set
load_state(f) ==
    IF f.kind \in {"array", "object", "string"} THEN Range(f.elems) ELSE {}

\* the order of sorted() on the identifiers of this model
IdOrder == <<"#7", "cdn/1", "cdn/2", "cdn/3", "ss/1", "ss/2", "ss/3", "x/1">>

Sorted(ids) == SelectSeq(IdOrder, LAMBDA e : e \in ids)

\* sorted() raises TypeError on a set that mixes numbers and strings
SortRaises(ids) == (ids \cap JsonNumbers # {}) /\ (ids \ JsonNumbers # {})

\* The files save_state(ids) can leave behind, f being the file before:
\* the sorted array; f itself when sorted() or opening the file raises;
\* a cut-off file when the write raises after write_text truncated it.
save_state(ids, f) ==
    IF SortRaises(ids) THEN {f}
    ELSE {JsonArray(Sorted(ids)), f, BadText}

(***************************************************************************)
(* State.                                                                  *)
(***************************************************************************)
VARIABLES
    sunstarPage,   \* source data: the anchors of the SunStar collection page
    cdnPage,       \* source data: the anchors of the CDN index page
    file,          \* posted.json (STATE_FILE)
    run,           \* number of the current invocation of main()
    pc,            \* position of main()
    items,         \* main: items
    filtered,      \* main: filtered
    to_post,       \* main: to_post
    fi,            \* index of "for it in items" (1-based)
    pi,            \* index of "for it in to_post" (1-based)
    seen_urls,     \* main: seen_urls, the working seen set
    posted,        \* main: posted
    FLAIR_ID,      \* module global FLAIR_ID ("none" is None)
    exit_code,     \* process exit status of the run
    outcome,       \* which exit main() took
    sunstarRet,    \* what scrape_sunstar_local did in this run
    cdnRet,        \* what scrape_cdn_latest did in this run
    aggregated,    \* items as handed to dedupe_by_similarity
    loaded,        \* what load_state() returned in this run
    fileAtStart,   \* posted.json when this run started
    freshIdx,      \* indices of items for which is_fresh returned True
    attempts,      \* URLs passed to sub.submit in this run, in call order
    submitted,     \* URLs for which sub.submit returned in this run
    saved,         \* ids this run's save_state wrote in full
    prevSaved,     \* ids the previous run's save_state wrote in full
    prevClean,     \* the previous run met no failure, stale item or skip
    dd_items,      \* dedupe_by_similarity alone: its argument
    dd_kept,       \* dedupe_by_similarity alone: its result
    dd_done,       \* dedupe_by_similarity alone: it has returned
    nt_title,      \* norm_title / near_duplicate alone: the title t
    nt_once,       \* norm_title(t)
    nt_twice,      \* norm_title(norm_title(t))
    nt_self,       \* near_duplicate(t, t)
    nt_empty,      \* near_duplicate("", t)
    nt_done,       \* the four have been computed
    f_pc,          \* fetch: "idle", in the "loop", "returned" or "raised"
    f_attempt,     \* fetch: attempt, the loop variable of range(3)
    f_ua,          \* fetch: index in uas of headers["User-Agent"]
    f_last_exc,    \* fetch: last_exc ("None" is None)
    f_log,         \* fetch: the requests.get calls made, with what they met
    f_result,      \* fetch: the text returned, or the exception raised
    fr_articles,   \* freshness filter alone: the unseen items and their pages
    fr_i,          \* freshness filter alone: index of the item at hand
    fr_pc,         \* freshness filter alone: position in the loop
    fr_results,    \* per item done: whether fetch raised, what is_fresh said
    fr_filtered,   \* freshness filter alone: the urls appended to filtered
    fr_soup,       \* last is_fresh call: the parsed page (<<>> if none)
    fr_dt,         \* last is_fresh call: dt of extract_published_datetime
    fr_now,        \* last is_fresh call: datetime.now(timezone.utc)
    fr_ok          \* last is_fresh call: the value returned

vars ==
    <<sunstarPage, cdnPage, file, run, pc, items, filtered, to_post, fi, pi,
      seen_urls, posted, FLAIR_ID, exit_code, outcome, sunstarRet, cdnRet,
      aggregated, loaded, fileAtStart, freshIdx, attempts, submitted,
      saved, prevSaved, prevClean, dd_items, dd_kept, dd_done,
      nt_title, nt_once, nt_twice, nt_self, nt_empty, nt_done,
      f_pc, f_attempt, f_ua, f_last_exc, f_log, f_result,
      fr_articles, fr_i, fr_pc, fr_results, fr_filtered,
      fr_soup, fr_dt, fr_now, fr_ok>>

sourceVars == <<sunstarPage, cdnPage>>
dedupeVars == <<dd_items, dd_kept, dd_done>>
normVars == <<nt_title, nt_once, nt_twice, nt_self, nt_empty, nt_done>>
fetchVars == <<f_pc, f_attempt, f_ua, f_last_exc, f_log, f_result>>
freshVars ==
    <<fr_articles, fr_i, fr_pc, fr_results, fr_filtered,
      fr_soup, fr_dt, fr_now, fr_ok>>
otherVars == <<normVars, fetchVars, freshVars>>
aloneVars == <<dedupeVars, otherVars>>

(***************************************************************************)
(* Source data and initial state files the runs are checked on.            *)
(***************************************************************************)
SourceData ==
    { \* six stories, none a near-duplicate of another: more than the cap
      [sunstar |-> <<Link("ss/1", T_Council), Link("ss/2", T_Mayor),
                     Link("ss/3", T_Flood)>>,
       cdn     |-> <<Link("cdn/1", T_Bus), Link("cdn/2", T_Bridge),
                     Link("cdn/3", T_Dengue)>>],
      \* one story told four ways, a repeated href, a short anchor text
      [sunstar |-> <<Link("ss/1", T_FireTwo), Link("ss/1", T_Council),
                     Link("ss/2", T_Fire), Link("ss/3", T_Short)>>,
       cdn     |-> <<Link("cdn/1", T_FireSix), Link("cdn/2", T_Watch),
                     Link("cdn/3", T_FirePunct)>>],
      \* the same href on both pages under different anchor texts
      [sunstar |-> <<Link("x/1", T_Council)>>,
       cdn     |-> <<Link("x/1", T_Mayor), Link("cdn/1", T_Bangs)>>],
      \* nothing on one page
      [sunstar |-> <<>>,
       cdn     |-> <<Link("cdn/2", T_Bridge)>>] }

InitialFiles ==
    { Absent, BadText,
      JsonArray(<<"ss/1">>),
      JsonArray(<<"ss/2", "cdn/1", "cdn/2">>),
      JsonArray(<<"#7">>),
      JsonObject(<<"cdn/3">>) }

NoRet == [raised |-> FALSE, ret |-> <<>>]

\* the run-local state when main() is entered
RunStart ==
    /\ items = <<>> /\ filtered = <<>> /\ to_post = <<>>
    /\ fi = 1 /\ pi = 1
    /\ seen_urls = {} /\ posted = 0
    /\ FLAIR_ID = "none"
    /\ exit_code = 0 /\ outcome = "running"
    /\ sunstarRet = NoRet /\ cdnRet = NoRet
    /\ aggregated = <<>> /\ loaded = {}
    /\ freshIdx = {} /\ attempts = <<>> /\ submitted = {} /\ saved = {}

DedupeIdle == dd_items = <<>> /\ dd_kept = <<>> /\ dd_done = FALSE

NormIdle ==
    /\ nt_title = <<>> /\ nt_once = <<>> /\ nt_twice = <<>>
    /\ nt_self = FALSE /\ nt_empty = FALSE /\ nt_done = FALSE

FetchIdle ==
    /\ f_pc = "idle" /\ f_attempt = 0 /\ f_ua = 1
    /\ f_last_exc = "None" /\ f_log = <<>> /\ f_result = "none"

\* None, where the code holds a datetime or None
NoDate == [kind |-> "none", at |-> 0, via |-> "none"]

\* is_fresh has not been called yet, or is being called
NoCall ==
    /\ fr_soup = <<>> /\ fr_dt = NoDate /\ fr_now = 0 /\ fr_ok = FALSE

FreshIdle ==
    /\ fr_articles = <<>> /\ fr_i = 1 /\ fr_pc = "idle"
    /\ fr_results = <<>> /\ fr_filtered = <<>>
    /\ NoCall

Init ==
    /\ \E d \in SourceData : sunstarPage = d.sunstar /\ cdnPage = d.cdn
    /\ file \in InitialFiles
    /\ fileAtStart = file
    /\ run = 1
    /\ prevSaved = {} /\ prevClean = FALSE
    /\ pc = "scrape_sunstar"
    /\ RunStart
    /\ DedupeIdle
    /\ NormIdle /\ FetchIdle /\ FreshIdle

(***************************************************************************)
(* main(), step 1: gather from both sources.                               *)
(***************************************************************************)
\* a raising adapter that takes the gathered items down with it
GatherOrNothing(its, r) == IF r.raised THEN <<>> ELSE its \o r.ret

\* "try: items += scrape(); except Exception: print": r is what the
\* adapter did, a raise or a returned list
Gather(its, r) == IF r.raised THEN its ELSE its \o r.ret

ScrapeSunstar ==
    /\ pc = "scrape_sunstar"
    /\ \E raised \in BOOLEAN :
         LET r == IF raised THEN [raised |-> TRUE, ret |-> <<>>]
                  ELSE [raised |-> FALSE,
                        ret |-> scrape_sunstar_local(sunstarPage)]
         IN  /\ sunstarRet' = r
             /\ items' = Gather(items, r)
    /\ pc' = "scrape_cdn"
    /\ UNCHANGED <<sourceVars, aloneVars, file, run, filtered, to_post, fi,
                   pi, seen_urls, posted, FLAIR_ID, exit_code, outcome,
                   cdnRet, aggregated, loaded, fileAtStart, freshIdx,
                   attempts, submitted, saved, prevSaved, prevClean>>

ScrapeCdn ==
    /\ pc = "scrape_cdn"
    /\ \E raised \in BOOLEAN :
         LET r == IF raised THEN [raised |-> TRUE, ret |-> <<>>]
                  ELSE [raised |-> FALSE,
                        ret |-> scrape_cdn_latest(cdnPage)]
         IN  /\ cdnRet' = r
             /\ items' = Gather(items, r)
    /\ pc' = "aggregate"
    /\ UNCHANGED <<sourceVars, aloneVars, file, run, filtered, to_post, fi,
                   pi, seen_urls, posted, FLAIR_ID, exit_code, outcome,
                   sunstarRet, aggregated, loaded, fileAtStart, freshIdx,
                   attempts, submitted, saved, prevSaved, prevClean>>

\* "if not items: return", else the cross-source de-dupe
Aggregate ==
    /\ pc = "aggregate"
    /\ aggregated' = items
    /\ IF items = <<>>
       THEN /\ outcome' = "no_items"
            /\ pc' = "done"
            /\ items' = items
       ELSE /\ items' = dedupe_by_similarity(items)
            /\ pc' = "auth"
            /\ outcome' = outcome
    /\ UNCHANGED <<sourceVars, aloneVars, file, run, filtered, to_post, fi,
                   pi, seen_urls, posted, FLAIR_ID, exit_code, sunstarRet,
                   cdnRet, loaded, fileAtStart, freshIdx, attempts,
                   submitted, saved, prevSaved, prevClean>>

(***************************************************************************)
(* main(), steps 2 and 3: Reddit auth, flair discovery.                    *)
(***************************************************************************)
\* an auth failure that is logged and run past
AfterAuthIgnored(ok) == "flair"

\* where main() goes after the auth try/except: on, or out by sys.exit(1)
AfterAuth(ok) == IF ok THEN "flair" ELSE "done"

Auth ==
    /\ pc = "auth"
    /\ \E ok \in BOOLEAN :
         /\ pc' = AfterAuth(ok)
         /\ exit_code' = IF ok THEN exit_code ELSE 1
         /\ outcome' = IF ok THEN outcome ELSE "auth_failed"
    /\ UNCHANGED <<sourceVars, aloneVars, file, run, items, filtered,
                   to_post, fi, pi, seen_urls, posted, FLAIR_ID, sunstarRet,
                   cdnRet, aggregated, loaded, fileAtStart, freshIdx,
                   attempts, submitted, saved, prevSaved, prevClean>>

\* FLAIR_ID is set when a selectable template carries FLAIR_TEXT; it stays
\* None when there is none or when listing the templates raises
Flair ==
    /\ pc = "flair"
    /\ FLAIR_ID' \in {"none", "flair-id"}
    /\ pc' = "load"
    /\ UNCHANGED <<sourceVars, aloneVars, file, run, items, filtered,
                   to_post, fi, pi, seen_urls, posted, exit_code, outcome,
                   sunstarRet, cdnRet, aggregated, loaded, fileAtStart,
                   freshIdx, attempts, submitted, saved, prevSaved,
                   prevClean>>

(***************************************************************************)
(* main(), step 4: state, freshness, cap.                                  *)
(***************************************************************************)
LoadState ==
    /\ pc = "load"
    /\ seen_urls' = load_state(file)
    /\ loaded' = load_state(file)
    /\ fi' = 1
    /\ filtered' = <<>>
    /\ pc' = "filter"
    /\ UNCHANGED <<sourceVars, aloneVars, file, run, items, to_post, pi,
                   posted, FLAIR_ID, exit_code, outcome, sunstarRet, cdnRet,
                   aggregated, fileAtStart, freshIdx, attempts, submitted,
                   saved, prevSaved, prevClean>>

\* a filter without the seen test
SkipNothing(it, seen) == FALSE

\* "if url in seen_urls: continue"
Skip(it, seen) == it.url \in seen

\* One iteration of "for it in items".  is_fresh is called for an unseen
\* item only; what it answers depends on the network and the clock.
FilterStep ==
    /\ pc = "filter"
    /\ fi <= Len(items)
    /\ IF Skip(items[fi], seen_urls)
       THEN UNCHANGED <<filtered, freshIdx>>
       ELSE \E fresh \in BOOLEAN :
              /\ filtered' = IF fresh THEN Append(filtered, items[fi])
                             ELSE filtered
              /\ freshIdx' = IF fresh THEN freshIdx \cup {fi} ELSE freshIdx
    /\ fi' = fi + 1
    /\ UNCHANGED <<sourceVars, aloneVars, file, run, pc, items, to_post, pi,
                   seen_urls, posted, FLAIR_ID, exit_code, outcome,
                   sunstarRet, cdnRet, aggregated, loaded, fileAtStart,
                   attempts, submitted, saved, prevSaved, prevClean>>

\* no cap
Uncapped(fl) == fl

\* filtered[:MAX_POSTS_PER_RUN]
Cap(fl) == SubSeq(fl, 1, Min(Len(fl), MAX_POSTS_PER_RUN))

\* "if not filtered: return", else the cap and "posted = 0"
Select ==
    /\ pc = "filter"
    /\ fi > Len(items)
    /\ IF filtered = <<>>
       THEN /\ outcome' = "nothing_fresh"
            /\ pc' = "done"
            /\ UNCHANGED <<to_post, posted, pi>>
       ELSE /\ to_post' = Cap(filtered)
            /\ posted' = 0
            /\ pi' = 1
            /\ pc' = "publish"
            /\ outcome' = outcome
    /\ UNCHANGED <<sourceVars, aloneVars, file, run, items, filtered, fi,
                   seen_urls, FLAIR_ID, exit_code, sunstarRet, cdnRet,
                   aggregated, loaded, fileAtStart, freshIdx, attempts,
                   submitted, saved, prevSaved, prevClean>>

(***************************************************************************)
(* main(), the publish loop.                                               *)
(***************************************************************************)
\* What one iteration meets: both calls return, sub.submit raises, or
\* sub.submit returns and submission.flair.select raises (called only when
\* FLAIR_ID is set).
PublishOutcomes(flair) ==
    IF flair # "none" THEN {"ok", "submit_raised", "flair_raised"}
    ELSE {"ok", "submit_raised"}

\* a loop that stops at the first failure
NextIndexOrBreak(i, o, n) == IF o = "ok" THEN i + 1 ELSE n + 1

\* the for loop goes to the next element whatever the iteration met
NextIndex(i, o, n) == i + 1

PublishStep ==
    /\ pc = "publish"
    /\ pi <= Len(to_post)
    /\ \E o \in PublishOutcomes(FLAIR_ID) :
         LET url == to_post[pi].url
         IN  /\ attempts' = Append(attempts, url)
             /\ submitted' = IF o = "submit_raised" THEN submitted
                             ELSE submitted \cup {url}
             /\ seen_urls' = IF o = "ok" THEN seen_urls \cup {url}
                             ELSE seen_urls
             /\ posted' = IF o = "ok" THEN posted + 1 ELSE posted
             /\ pi' = NextIndex(pi, o, Len(to_post))
    /\ UNCHANGED <<sourceVars, aloneVars, file, run, pc, items, filtered,
                   to_post, fi, FLAIR_ID, exit_code, outcome, sunstarRet,
                   cdnRet, aggregated, loaded, fileAtStart, freshIdx, saved,
                   prevSaved, prevClean>>

\* saving whatever the loop did
AlwaysSave(n) == TRUE

\* "if posted:"
ShouldSave(n) == n > 0

\* after the loop: save_state(seen_urls) when something was posted
Finish ==
    /\ pc = "publish"
    /\ pi > Len(to_post)
    /\ IF ShouldSave(posted)
       THEN \E f \in save_state(seen_urls, file) :
              /\ file' = f
              /\ saved' = IF f = JsonArray(Sorted(seen_urls))
                             /\ ~ SortRaises(seen_urls)
                          THEN seen_urls ELSE {}
       ELSE UNCHANGED <<file, saved>>
    /\ outcome' = "finished"
    /\ pc' = "done"
    /\ UNCHANGED <<sourceVars, aloneVars, run, items, filtered, to_post, fi,
                   pi, seen_urls, posted, FLAIR_ID, exit_code, sunstarRet,
                   cdnRet, aggregated, loaded, fileAtStart, freshIdx,
                   attempts, submitted, prevSaved, prevClean>>

(***************************************************************************)
(* The next invocation of main(): a new process, the same source data,     *)
(* posted.json as the previous run left it.                                *)
(***************************************************************************)
\* the run that just ended published every candidate it had and saved
CleanRun ==
    /\ outcome = "finished"
    /\ ~ sunstarRet.raised /\ ~ cdnRet.raised
    /\ freshIdx = {i \in 1..Len(items) : items[i].url \notin loaded}
    /\ posted = Len(attempts)
    /\ saved = seen_urls

NextRun ==
    /\ pc = "done"
    /\ run < MaxRuns
    /\ run' = run + 1
    /\ prevSaved' = saved
    /\ prevClean' = CleanRun
    /\ fileAtStart' = file
    /\ pc' = "scrape_sunstar"
    /\ items' = <<>> /\ filtered' = <<>> /\ to_post' = <<>>
    /\ fi' = 1 /\ pi' = 1
    /\ seen_urls' = {} /\ posted' = 0
    /\ FLAIR_ID' = "none"
    /\ exit_code' = 0 /\ outcome' = "running"
    /\ sunstarRet' = NoRet /\ cdnRet' = NoRet
    /\ aggregated' = <<>> /\ loaded' = {}
    /\ freshIdx' = {} /\ attempts' = <<>> /\ submitted' = {} /\ saved' = {}
    /\ UNCHANGED <<sourceVars, aloneVars, file>>

Next ==
    \/ ScrapeSunstar
    \/ ScrapeCdn
    \/ Aggregate
    \/ Auth
    \/ Flair
    \/ LoadState
    \/ FilterStep
    \/ Select
    \/ PublishStep
    \/ Finish
    \/ NextRun

Spec == Init /\ [][Next]_vars

(***************************************************************************)
(* dedupe_by_similarity on its own: every list of at most MaxLen           *)
(* candidates over DedupePool, main() not running.                         *)
(***************************************************************************)
Cand(t, u, src) == [title |-> t, url |-> u, source |-> src]

DedupePool ==
    { Cand(T_FireTwo, "ss/1", SUNSTAR), Cand(T_Fire, "ss/2", SUNSTAR),
      Cand(T_Council, "ss/3", SUNSTAR), Cand(T_FireSix, "cdn/1", CDN),
      Cand(T_Bangs, "cdn/2", CDN), Cand(T_FirePunct, "cdn/3", CDN) }

SeqsUpTo(S, n) == UNION {[1..k -> S] : k \in 0..n}

InitDedupe ==
    /\ dd_items \in SeqsUpTo(DedupePool, MaxLen)
    /\ dd_kept = <<>>
    /\ dd_done = FALSE
    /\ sunstarPage = <<>> /\ cdnPage = <<>>
    /\ file = Absent /\ fileAtStart = Absent
    /\ run = 1
    /\ prevSaved = {} /\ prevClean = FALSE
    /\ pc = "idle"
    /\ RunStart
    /\ NormIdle /\ FetchIdle /\ FreshIdle

ApplyDedupe ==
    /\ pc = "idle"
    /\ ~ dd_done
    /\ dd_kept' = dedupe_by_similarity(dd_items)
    /\ dd_done' = TRUE
    /\ UNCHANGED <<sourceVars, otherVars, dd_items, file, run, pc, items, filtered,
                   to_post, fi, pi, seen_urls, posted, FLAIR_ID, exit_code,
                   outcome, sunstarRet, cdnRet, aggregated, loaded,
                   fileAtStart, freshIdx, attempts, submitted, saved,
                   prevSaved, prevClean>>

NextDedupe == ApplyDedupe

SpecDedupe == InitDedupe /\ [][NextDedupe]_vars

(***************************************************************************)
(* Helpers of the properties.                                              *)
(***************************************************************************)
Urls(s) == [i \in 1..Len(s) |-> s[i].url]

\* the elements of s at the positions K, in the order of s
KthOf(K, k) == CHOOSE i \in K : Cardinality({j \in K : j < i}) = k - 1
Pick(s, K) == [k \in 1..Cardinality(K) |-> s[KthOf(K, k)]]

\* position j of s is a near-duplicate of the earlier position i
DupOf(s, j, i) == i < j /\ near_duplicate(s[j].title, s[i].title)

\* K is the set of positions that are near-duplicates of no earlier
\* position of K
FirstOccurrences(s, K) ==
    \A i \in 1..Len(s) :
        i \in K <=> ~ \E j \in K : DupOf(s, i, j)

(***************************************************************************)
(* C7 as stated: dedupe_by_similarity keeps first occurrence, so whenever  *)
(* A precedes B in the input and near_duplicate(B, A) holds, the output    *)
(* contains A and does not contain B.  Stated for inputs that list no      *)
(* candidate twice.                                                        *)
(***************************************************************************)
NoRepeats(s) == \A i, j \in 1..Len(s) : s[i] = s[j] => i = j

C7_FirstWinsAlways ==
    (dd_done /\ NoRepeats(dd_items)) =>
        \A i, j \in 1..Len(dd_items) :
            DupOf(dd_items, j, i) =>
                /\ dd_items[i] \in Range(dd_kept)
                /\ dd_items[j] \notin Range(dd_kept)

(***************************************************************************)
(* C7 amended: the output of dedupe_by_similarity is the input restricted  *)
(* to the positions that are near-duplicates of no earlier kept position,  *)
(* in input order; a position that is a near-duplicate of an earlier KEPT  *)
(* position is dropped, and no kept candidate is a near-duplicate of an    *)
(* earlier kept one.                                                       *)
(***************************************************************************)
C7_KeepsFirstKept ==
    dd_done =>
        /\ \E K \in SUBSET (1..Len(dd_items)) :
             /\ FirstOccurrences(dd_items, K)
             /\ dd_kept = Pick(dd_items, K)
             /\ \A i \in K : \A j \in 1..Len(dd_items) :
                  DupOf(dd_items, j, i) => j \notin K
        /\ \A p, q \in 1..Len(dd_kept) : ~ DupOf(dd_kept, q, p)

\* a kept A, a later near-duplicate of it dropped, and a candidate kept
\* although it is a near-duplicate of a dropped one
C7_Witness ==
    /\ dd_done
    /\ NoRepeats(dd_items)
    /\ Len(dd_items) = 3 /\ Len(dd_kept) = 2
    /\ DupOf(dd_items, 2, 1)
    /\ DupOf(dd_items, 3, 2)
    /\ dd_kept = <<dd_items[1], dd_items[3]>>

(***************************************************************************)
(* C1 as stated: with unchanged source data, the second of two successive  *)
(* runs makes no sub.submit call.  Stated for its most favourable case:    *)
(* the first run met no adapter, publish or save failure and found every   *)
(* unseen candidate fresh, and no adapter fails in the second run.         *)
(***************************************************************************)
C1_SecondRunSilent ==
    (run > 1 /\ prevClean /\ ~ sunstarRet.raised /\ ~ cdnRet.raised) =>
        attempts = <<>>

(***************************************************************************)
(* C1 amended: the second of two successive runs makes no sub.submit call  *)
(* for a URL that the first run's save_state wrote to posted.json; it may  *)
(* publish candidates the first run left out.                              *)
(***************************************************************************)
C1_SavedNotResubmitted == run > 1 => Range(attempts) \cap prevSaved = {}

\* a later run that met a candidate saved by the run before, and published
C1_Witness ==
    /\ run > 1
    /\ outcome = "finished"
    /\ attempts # <<>>
    /\ \E i \in 1..Len(items) : items[i].url \in prevSaved

(***************************************************************************)
(* C2: no candidate whose URL is in the set load_state() returned in this  *)
(* run is passed to sub.submit in this run.                                *)
(***************************************************************************)
C2_SeenNeverSubmitted == Range(attempts) \cap loaded = {}

\* a finished run, with publish calls, that had a seen candidate on the list
C2_Witness ==
    /\ outcome = "finished"
    /\ attempts # <<>>
    /\ \E i \in 1..Len(items) : items[i].url \in loaded

(***************************************************************************)
(* C3: when the publish loop has ended, the working seen set is the loaded *)
(* seen set united with exactly the URLs for which sub.submit succeeded in *)
(* this run.                                                               *)
(***************************************************************************)
LoopEnded == (pc = "publish" /\ pi > Len(to_post)) \/ outcome = "finished"

C3_SeenIsLoadedPlusSubmitted ==
    LoopEnded => seen_urls = loaded \cup submitted

(***************************************************************************)
(* C4: the set of identifiers load_state recovers from posted.json never   *)
(* shrinks, whatever happens to a run.                                     *)
(***************************************************************************)
C4_StateNeverShrinks ==
    [][load_state(file) \subseteq load_state(file')]_vars

(***************************************************************************)
(* C5: posted.json changes in a run only if a publish succeeded in that    *)
(* run; a run with zero successful publishes leaves it as it was.          *)
(***************************************************************************)
C5_WriteOnlyAfterPublish ==
    file # fileAtStart => (posted > 0 /\ submitted # {})

\* a run in which every publish failed has ended, the file untouched
C5_Witness ==
    /\ outcome = "finished"
    /\ attempts # <<>>
    /\ posted = 0
    /\ file = fileAtStart

(***************************************************************************)
(* C6: the list handed to the publish loop is the first                    *)
(* min(MAX_POSTS_PER_RUN, n) of the n unseen-and-fresh candidates, in      *)
(* aggregation order; a run makes at most MAX_POSTS_PER_RUN publish calls. *)
(***************************************************************************)
UnseenAndFresh ==
    {i \in 1..Len(items) : items[i].url \notin loaded /\ i \in freshIdx}

C6_CapAndOrder ==
    /\ Len(attempts) <= MAX_POSTS_PER_RUN
    /\ (pc = "publish" \/ outcome = "finished") =>
         /\ filtered = Pick(items, UnseenAndFresh)
         /\ Len(to_post) = Min(MAX_POSTS_PER_RUN, Len(filtered))
         /\ \A k \in 1..Len(to_post) : to_post[k] = filtered[k]

\* more fresh unseen candidates than the cap, and the loop has run
C6_Witness ==
    /\ outcome = "finished"
    /\ Len(filtered) > MAX_POSTS_PER_RUN
    /\ Len(attempts) = MAX_POSTS_PER_RUN

(***************************************************************************)
(* C8: a failed publish leaves the seen set as it is (nothing added,       *)
(* nothing rolled back) and the loop goes on to the next candidate; when   *)
(* the loop has ended every selected candidate was attempted exactly once, *)
(* in order.                                                               *)
(***************************************************************************)
C8_FailureContinues ==
    [][ /\ (pc = "publish" /\ attempts' # attempts /\ posted' = posted) =>
             /\ seen_urls' = seen_urls
             /\ pc' = "publish"
             /\ pi' = pi + 1
             /\ attempts' = Append(attempts, to_post[pi].url)
        /\ outcome' = "finished" => attempts' = Urls(to_post') ]_vars

\* a success, then a failure, then a success
C8_Witness ==
    /\ outcome = "finished"
    /\ Len(attempts) >= 3
    /\ attempts[1] \in seen_urls \ loaded
    /\ attempts[2] \notin seen_urls
    /\ attempts[3] \in seen_urls \ loaded

(***************************************************************************)
(* C9: what one adapter returned is aggregated, in order, also when the    *)
(* other adapter raised; the run stops for want of items only when both    *)
(* contributed nothing, and otherwise goes on to the auth step with the    *)
(* de-duplicated aggregate.  Stated where main() leaves the gathering.     *)
(***************************************************************************)
Contribution(r, list) == IF r.raised THEN <<>> ELSE list

C9_SourceIsolation ==
    (pc = "auth" \/ outcome = "no_items") =>
        LET expect ==
              Contribution(sunstarRet, scrape_sunstar_local(sunstarPage))
              \o Contribution(cdnRet, scrape_cdn_latest(cdnPage))
        IN  /\ aggregated = expect
            /\ outcome = "no_items" <=> expect = <<>>
            /\ pc = "auth" => items = dedupe_by_similarity(expect)

\* one adapter raised and the run published the other's candidates
C9_Witness ==
    /\ outcome = "finished"
    /\ cdnRet.raised /\ ~ sunstarRet.raised
    /\ aggregated = scrape_sunstar_local(sunstarPage)
    /\ posted > 0

(***************************************************************************)
(* C10: a run whose Reddit authentication fails terminates with a non-zero *)
(* exit status, makes no publish call and leaves posted.json unchanged.    *)
(***************************************************************************)
C10_AuthFailureFatal ==
    outcome = "auth_failed" =>
        /\ pc = "done"
        /\ exit_code # 0
        /\ attempts = <<>>
        /\ file = fileAtStart

\* auth failed in a run that had candidates and a state file with entries
C10_Witness ==
    /\ outcome = "auth_failed"
    /\ items # <<>>
    /\ load_state(file) # {}

(***************************************************************************)
(* C12: load_state fails open: it returns the empty set when posted.json   *)
(* is absent and for every content that is not a well-formed JSON array of *)
(* identifier strings, unparseable or of another JSON shape.               *)
(***************************************************************************)
WellFormedState(f) ==
    f.kind = "array" /\ Range(f.elems) \cap JsonNumbers = {}

HasLoaded ==
    pc \in {"filter", "publish"} \/ outcome \in {"nothing_fresh", "finished"}

C12_FailsOpen ==
    (HasLoaded /\ ~ WellFormedState(fileAtStart)) => loaded = {}

(***************************************************************************)
(* C18: the output of dedupe_by_similarity contains no two candidates with *)
(* the same URL, so no URL is passed to sub.submit twice within one run.   *)
(***************************************************************************)
C18_NoUrlTwice ==
    /\ pc = "auth" => NoRepeats(Urls(items))
    /\ NoRepeats(attempts)

(***************************************************************************)
(* norm_title and near_duplicate on their own: every title of at most      *)
(* MaxTitleLen characters over a word character of each case, a space and  *)
(* a punctuation mark; main() not running.                                 *)
(***************************************************************************)
MaxTitleLen == 5

TitleAlphabet == {"a", "B", " ", "!"}

\* main() is not running
MainParked ==
    /\ sunstarPage = <<>> /\ cdnPage = <<>>
    /\ file = Absent /\ fileAtStart = Absent
    /\ run = 1
    /\ prevSaved = {} /\ prevClean = FALSE
    /\ pc = "idle"
    /\ RunStart

InitNorm ==
    /\ nt_title \in SeqsUpTo(TitleAlphabet, MaxTitleLen)
    /\ nt_once = <<>> /\ nt_twice = <<>>
    /\ nt_self = FALSE /\ nt_empty = FALSE /\ nt_done = FALSE
    /\ MainParked /\ DedupeIdle /\ FetchIdle /\ FreshIdle

ApplyNorm ==
    /\ pc = "idle"
    /\ ~ nt_done
    /\ nt_once' = norm_title(nt_title)
    /\ nt_twice' = norm_title(norm_title(nt_title))
    /\ nt_self' = near_duplicate(nt_title, nt_title)
    /\ nt_empty' = near_duplicate(<<>>, nt_title)
    /\ nt_done' = TRUE
    /\ UNCHANGED <<sourceVars, dedupeVars, fetchVars, freshVars, nt_title,
                   file, run, pc, items, filtered, to_post, fi, pi,
                   seen_urls, posted, FLAIR_ID, exit_code, outcome,
                   sunstarRet, cdnRet, aggregated, loaded, fileAtStart,
                   freshIdx, attempts, submitted, saved, prevSaved,
                   prevClean>>

NextNorm == ApplyNorm

SpecNorm == InitNorm /\ [][NextNorm]_vars

(***************************************************************************)
(* C13: norm_title is idempotent: norm_title(norm_title(t)) = norm_title(t) *)
(* for every title t of word characters, whitespace and punctuation.       *)
(***************************************************************************)
C13_NormIdempotent == nt_done => nt_twice = nt_once

(***************************************************************************)
(* C14 as stated: near_duplicate(t, t) is true for every non-empty title   *)
(* t, and near_duplicate("", x) is false for every title x.                *)
(***************************************************************************)
C14_SelfMatchNonEmpty ==
    nt_done =>
        /\ nt_title # <<>> => nt_self
        /\ ~ nt_empty

(***************************************************************************)
(* C14 amended: near_duplicate(t, t) is true for every title t whose       *)
(* normalized form is non-empty and false for every other t, and           *)
(* near_duplicate("", x) is false for every title x.                       *)
(***************************************************************************)
C14_SelfMatchNormalized ==
    nt_done =>
        /\ nt_self <=> (nt_once # <<>>)
        /\ ~ nt_empty

\* a title that matches itself by the character ratio alone (no token is
\* longer than 2), and whose normal form differs from it
C14_Witness ==
    /\ nt_done
    /\ nt_self
    /\ token_set(nt_title) = {}
    /\ nt_once # nt_title

(***************************************************************************)
(* fetch(url).  A request meets an HTTP status, or a transport error       *)
(* (requests.get raises), written as status 0.                             *)
(***************************************************************************)
FETCH_ATTEMPTS == 3

Statuses == {0, 200, 403, 404, 429, 500}

\* the two entries of uas, by index
UserAgents == {1, 2}

\* uas[(uas.index(ua) + 1) % len(uas)], for 1-based indices
RotateUA(ua) == (ua % 2) + 1

\* "r.status_code in (403, 429) and attempt < 2", without the attempt test
BlockedAlways(st, attempt) == st \in {403, 429}

\* "r.status_code in (403, 429) and attempt < 2"
Blocked(st, attempt) == st \in {403, 429} /\ attempt < 2

\* r.raise_for_status() raises HTTPError
RaiseForStatus(st) == st >= 400 /\ st < 600

\* a retry that does not count the blocked attempts
NextAttemptUnlessBlocked(attempt, st) ==
    IF st \in {403, 429} THEN attempt ELSE attempt + 1

\* the next value of the loop variable of "for attempt in range(3)"
NextAttempt(attempt, st) == attempt + 1

mainVars ==
    <<sourceVars, file, run, pc, items, filtered, to_post, fi, pi, seen_urls,
      posted, FLAIR_ID, exit_code, outcome, sunstarRet, cdnRet, aggregated,
      loaded, fileAtStart, freshIdx, attempts, submitted, saved, prevSaved,
      prevClean>>

\* one iteration of the retry loop
FetchAttempt ==
    /\ f_pc = "loop"
    /\ f_attempt < FETCH_ATTEMPTS
    /\ \E st \in Statuses :
         /\ f_log' = Append(f_log, [ua |-> f_ua, status |-> st])
         /\ IF st = 0
            THEN \* requests.get raised: "except Exception as e"
                 /\ f_last_exc' = "ConnectionError"
                 /\ f_attempt' = NextAttempt(f_attempt, st)
                 /\ UNCHANGED <<f_pc, f_ua, f_result>>
            ELSE IF Blocked(st, f_attempt)
            THEN \* rotate the User-Agent and "continue"
                 /\ f_ua' = RotateUA(f_ua)
                 /\ f_attempt' = NextAttempt(f_attempt, st)
                 /\ UNCHANGED <<f_pc, f_last_exc, f_result>>
            ELSE IF RaiseForStatus(st)
            THEN /\ f_last_exc' = "HTTPError"
                 /\ f_attempt' = NextAttempt(f_attempt, st)
                 /\ UNCHANGED <<f_pc, f_ua, f_result>>
            ELSE \* "return r.text"
                 /\ f_pc' = "returned"
                 /\ f_result' = "text"
                 /\ UNCHANGED <<f_attempt, f_ua, f_last_exc>>
    /\ UNCHANGED <<mainVars, dedupeVars, normVars, freshVars>>

\* after the loop: "raise last_exc"; raising None is a TypeError
FetchRaise ==
    /\ f_pc = "loop"
    /\ f_attempt >= FETCH_ATTEMPTS
    /\ f_pc' = "raised"
    /\ f_result' = IF f_last_exc = "None" THEN "TypeError" ELSE f_last_exc
    /\ UNCHANGED <<mainVars, dedupeVars, normVars, freshVars, f_attempt,
                   f_ua, f_last_exc, f_log>>

\* fetch is entered: headers["User-Agent"] = random.choice(uas)
InitFetch ==
    /\ f_pc = "loop"
    /\ f_attempt = 0
    /\ f_ua \in UserAgents
    /\ f_last_exc = "None"
    /\ f_log = <<>>
    /\ f_result = "none"
    /\ MainParked /\ DedupeIdle /\ NormIdle /\ FreshIdle

NextFetch == FetchAttempt \/ FetchRaise

SpecFetch == InitFetch /\ [][NextFetch]_vars

(***************************************************************************)
(* C15: whatever the server answers, one call of fetch makes at most 3     *)
(* requests (one per iteration, so the loop ends) and then either returns  *)
(* the text of a response that passed the status check or raises.          *)
(***************************************************************************)
C15_BoundedRetry ==
    /\ Len(f_log) <= 3
    /\ f_pc = "loop" => Len(f_log) = f_attempt
    /\ f_pc = "returned" =>
         /\ f_result = "text"
         /\ f_log[Len(f_log)].status # 0
         /\ ~ RaiseForStatus(f_log[Len(f_log)].status)
    /\ f_pc = "raised" =>
         /\ f_result \notin {"none", "text"}
         /\ Len(f_log) = 3
         /\ f_log[3].status = 0 \/ RaiseForStatus(f_log[3].status)

\* three requests were made, two of them blocked, and the third returned
C15_Witness ==
    /\ f_pc = "returned"
    /\ Len(f_log) = 3
    /\ f_log[1].status = 403 /\ f_log[2].status = 429

(***************************************************************************)
(* C17: within one call of fetch, an attempt that follows a transient      *)
(* failure (403, 429, a 5xx status or a transport error) declares another  *)
(* User-Agent than the failed attempt.                                     *)
(***************************************************************************)
Transient(st) == st \in {0, 403, 429} \/ (st >= 500 /\ st < 600)

C17_RotatesAfterFailure ==
    \A k \in 1..(Len(f_log) - 1) :
        Transient(f_log[k].status) => f_log[k + 1].ua # f_log[k].ua

(***************************************************************************)
(* C20: when fetch leaves its retry loop without returning, last_exc holds *)
(* the exception of a failed attempt, never None: fetch raises a real      *)
(* error.                                                                  *)
(***************************************************************************)
C20_LastExcSet ==
    /\ (f_pc = "loop" /\ f_attempt >= FETCH_ATTEMPTS) => f_last_exc # "None"
    /\ f_pc = "raised" => f_result \in {"HTTPError", "ConnectionError"}

\* fetch raised after being blocked on all three attempts
C20_Witness ==
    /\ f_pc = "raised"
    /\ \A k \in 1..3 : f_log[k].status \in {403, 429}


(***************************************************************************)
(* Dates.  An instant is a number of minutes since 2000-01-01T00:00 UTC.   *)
(***************************************************************************)
MAX_AGE_HOURS == 24

IsLeap(y) == (y % 4 = 0 /\ y % 100 # 0) \/ y % 400 = 0

DaysInMonth(y, mo) ==
    IF mo = 2 THEN (IF IsLeap(y) THEN 29 ELSE 28)
    ELSE IF mo \in {4, 6, 9, 11} THEN 30 ELSE 31

\* datetime(y, mo, d) does not raise ValueError
ValidDate(y, mo, d) ==
    /\ y >= 1 /\ y <= 9999
    /\ mo >= 1 /\ mo <= 12
    /\ d >= 1 /\ d <= DaysInMonth(y, mo)

RECURSIVE DaysBeforeMonth(_, _)
DaysBeforeMonth(y, mo) ==
    IF mo <= 1 THEN 0
    ELSE DaysBeforeMonth(y, mo - 1) + DaysInMonth(y, mo - 1)

DaysBeforeYear(y) ==
    365 * (y - 2000) + Cardinality({k \in 2000..(y - 1) : IsLeap(k)})

\* datetime(y, mo, d, tzinfo=timezone.utc) of a year from 2000 on
Midnight(y, mo, d) ==
    (DaysBeforeYear(y) + DaysBeforeMonth(y, mo) + (d - 1)) * 24 * 60

(***************************************************************************)
(* infer_date_from_url.  A url is a sequence of characters.                *)
(***************************************************************************)
\* the character at position i, "" past the end of the string
CharAt(u, i) == IF i >= 1 /\ i <= Len(u) THEN u[i] ELSE ""

IsDigit(c) == c \in Digits

DigitVal(c) ==
    CASE c = "0" -> 0 [] c = "1" -> 1 [] c = "2" -> 2 [] c = "3" -> 3
      [] c = "4" -> 4 [] c = "5" -> 5 [] c = "6" -> 6 [] c = "7" -> 7
      [] c = "8" -> 8 [] c = "9" -> 9

\* how many characters "(\d{1,2})" takes at p when one of ends must follow
\* ("" is the end of the string); 0 if it cannot match there
NumLen(u, p, ends) ==
    IF IsDigit(CharAt(u, p)) /\ IsDigit(CharAt(u, p + 1))
       /\ CharAt(u, p + 2) \in ends /\ p + 1 <= Len(u)
    THEN 2
    ELSE IF IsDigit(CharAt(u, p)) /\ CharAt(u, p + 1) \in ends
    THEN 1
    ELSE 0

\* int() of the n digits at p
NumVal(u, p, n) ==
    IF n = 2 THEN 10 * DigitVal(u[p]) + DigitVal(u[p + 1]) ELSE DigitVal(u[p])

\* sep (20\d{2}) sep (\d{1,2}) sep (\d{1,2}) end  matches at position i
DateMatchAt(u, i, sep, ends) ==
    /\ CharAt(u, i) = sep
    /\ CharAt(u, i + 1) = "2" /\ CharAt(u, i + 2) = "0"
    /\ IsDigit(CharAt(u, i + 3)) /\ IsDigit(CharAt(u, i + 4))
    /\ CharAt(u, i + 5) = sep
    /\ LET n1 == NumLen(u, i + 6, {sep})
       IN  /\ n1 > 0
           /\ NumLen(u, i + 7 + n1, ends) > 0

NoMatch == [found |-> FALSE, y |-> 0, mo |-> 0, d |-> 0]

\* re.search: the groups of the leftmost match, as integers
SearchDate(u, sep, ends) ==
    LET S == {i \in 1..Len(u) : DateMatchAt(u, i, sep, ends)}
    IN  IF S = {} THEN NoMatch
        ELSE LET i  == SetMin(S)
                 n1 == NumLen(u, i + 6, {sep})
                 n2 == NumLen(u, i + 7 + n1, ends)
             IN  [found |-> TRUE,
                  y  |-> 2000 + NumVal(u, i + 3, 2),
                  mo |-> NumVal(u, i + 6, n1),
                  d  |-> NumVal(u, i + 7 + n1, n2)]

\* r"/(20\d{2})/(\d{1,2})/(\d{1,2})/"
SearchSlash(u) == SearchDate(u, "/", {"/"})

\* r"-(20\d{2})-(\d{1,2})-(\d{1,2})(?:-|/|$)"
SearchDash(u) == SearchDate(u, "-", {"-", "/", ""})

\* the match gives a date that datetime() accepts
GivesDate(m) == m.found /\ ValidDate(m.y, m.mo, m.d)

infer_date_from_url(u) ==
    LET m1 == SearchSlash(u)
        m2 == SearchDash(u)
    IN  IF GivesDate(m1)
        THEN [kind |-> "time", at |-> Midnight(m1.y, m1.mo, m1.d)]
        ELSE IF GivesDate(m2)
        THEN [kind |-> "time", at |-> Midnight(m2.y, m2.mo, m2.d)]
        ELSE [kind |-> "none", at |-> 0]


(***************************************************************************)
(* extract_published_datetime and is_fresh.  A parsed page is what its 8   *)
(* probed locations hold: the 7 meta_selectors in order, then the text of  *)
(* the first <time> tag.  A location is missing (no tag, or an empty       *)
(* value), holds a value neither parser accepts, or holds a timestamp.     *)
(***************************************************************************)
MaxArticles == 2

Locations == 1..8

Missing == [kind |-> "missing", at |-> 0]
Garbage == [kind |-> "garbage", at |-> 0]
Stamp(t) == [kind |-> "stamp", at |-> t]

\* the values datetime.now(timezone.utc) takes: 2025-10-23T09:00 and
\* 2025-10-24T00:00
NowValues == {Midnight(2025, 10, 23) + 9 * 60, Midnight(2025, 10, 24)}

\* ages, at 2025-10-23T09:00 and in minutes, of the timestamps of the pages
AgeAt == <<23 * 60, 24 * 60, 24 * 60 + 1, 25 * 60, 0 - 60, 0, 48 * 60, 60>>

StampAt(k) == Stamp(Midnight(2025, 10, 23) + 9 * 60 - AgeAt[k])

\* pages whose first timestamp is at location k, with nothing or unparseable
\* values before it and nothing or more timestamps after it; and pages
\* without any timestamp
Pages ==
    {[j \in Locations |-> Missing], [j \in Locations |-> Garbage]}
    \cup {[j \in Locations |->
              IF j < k THEN before
              ELSE IF j = k \/ more THEN StampAt(j) ELSE Missing] :
            k \in Locations, before \in {Missing, Garbage},
            more \in BOOLEAN}

\* parse_any_datetime(s), None for "" and for what neither parser accepts
parse_any_datetime(v) ==
    IF v.kind = "stamp" THEN [kind |-> "time", at |-> v.at]
    ELSE [kind |-> "none", at |-> 0]

Parseable(soup) ==
    {k \in Locations : parse_any_datetime(soup[k]).kind = "time"}

\* probing the locations from the last one backwards
LastParseable(soup) == SetMax(Parseable(soup))

\* the location whose "return dt" is reached: the first parseable one
FirstParseable(soup) == SetMin(Parseable(soup))

\* extract_published_datetime(article_url, source_name); fetched is FALSE
\* when fetch raised and the except branch was taken
extract_published_datetime(fetched, soup, url) ==
    IF fetched /\ Parseable(soup) # {}
    THEN [kind |-> "time",
          at   |-> parse_any_datetime(soup[FirstParseable(soup)]).at,
          via  |-> "page"]
    ELSE LET dt == infer_date_from_url(url)
         IN  IF dt.kind = "time"
             THEN [kind |-> "time", at |-> dt.at, via |-> "url"]
             ELSE NoDate

\* "age <= timedelta(hours=max_age_hours)" with a strict comparison
is_fresh_strict(dt, now, max_age_hours) ==
    IF dt.kind = "none" THEN TRUE
    ELSE now - dt.at < max_age_hours * 60

\* what is_fresh returns, given dt and datetime.now(timezone.utc)
is_fresh(dt, now, max_age_hours) ==
    IF dt.kind = "none" THEN TRUE
    ELSE now - dt.at <= max_age_hours * 60

\* an except clause for HTTP errors only
ExceptCatchesHTTPError(e) == e = "HTTPError"

\* "except Exception as e" around the fetch and the probing
ExceptCatches(e) == e \in {"HTTPError", "ConnectionError", "TypeError"}


U_Plain == <<"s", "/", "f", "i", "r", "e">>
U_SlashToday ==
    <<"s", "/", "2", "0", "2", "5", "/", "1", "0", "/", "2", "3", "/", "a">>
U_SlashBad ==
    <<"s", "/", "2", "0", "2", "5", "/", "1", "3", "/", "4", "0", "/", "a">>
U_BadThenDash ==
    <<"s", "/", "2", "0", "2", "5", "/", "2", "/", "3", "0", "/", "a",
      "-", "2", "0", "2", "5", "-", "1", "0", "-", "2", "1">>

\* the urls of a listing, in its order
Feed == <<U_Plain, U_SlashToday, U_SlashBad, U_BadThenDash>>

\* n consecutive urls of the listing from the k-th on, going round
Window(k, n) == [j \in 1..n |-> Feed[((k + j - 2) % Len(Feed)) + 1]]

FreshLists == {Window(k, n) : k \in 1..Len(Feed), n \in 0..MaxArticles}

\* "for it in items" is entered with items none of which is in seen_urls
InitFresh ==
    /\ fr_articles \in FreshLists
    /\ fr_i = 1
    /\ fr_pc = "next"
    /\ fr_results = <<>>
    /\ fr_filtered = <<>>
    /\ NoCall
    /\ MainParked /\ DedupeIdle /\ NormIdle /\ FetchIdle

\* is_fresh(it["url"], ...) calls extract_published_datetime, which calls
\* fetch: headers["User-Agent"] = random.choice(uas)
StartLookup ==
    /\ fr_pc = "next"
    /\ fr_i <= Len(fr_articles)
    /\ fr_pc' = "lookup"
    /\ f_pc' = "loop"
    /\ f_attempt' = 0
    /\ f_ua' \in UserAgents
    /\ f_last_exc' = "None"
    /\ f_log' = <<>>
    /\ f_result' = "none"
    /\ fr_soup' = <<>> /\ fr_dt' = NoDate /\ fr_now' = 0 /\ fr_ok' = FALSE
    /\ UNCHANGED <<mainVars, dedupeVars, normVars, fr_articles, fr_i,
                   fr_results, fr_filtered>>

\* fetch has returned or raised: the rest of extract_published_datetime,
\* the rest of is_fresh, and "filtered.append(it)"
FinishLookup ==
    /\ fr_pc = "lookup"
    /\ f_pc \in {"returned", "raised"}
    /\ IF f_pc = "raised" /\ ~ ExceptCatches(f_result)
       THEN \* the exception leaves extract_published_datetime and main
            /\ fr_pc' = "aborted"
            /\ UNCHANGED <<fr_i, fr_results, fr_filtered, fr_soup, fr_dt,
                           fr_now, fr_ok>>
       ELSE \E soup \in (IF f_pc = "returned" THEN Pages ELSE {<<>>}),
               now \in NowValues :
              LET url     == fr_articles[fr_i]
                  fetched == f_pc = "returned"
                  dt == extract_published_datetime(fetched, soup, url)
                  ok == is_fresh(dt, now, MAX_AGE_HOURS)
              IN  /\ fr_soup' = soup
                  /\ fr_dt' = dt
                  /\ fr_now' = now
                  /\ fr_ok' = ok
                  /\ fr_results' =
                       Append(fr_results, [raised |-> ~ fetched, ok |-> ok])
                  /\ fr_filtered' =
                       IF ok THEN Append(fr_filtered, url) ELSE fr_filtered
                  /\ fr_i' = fr_i + 1
                  /\ fr_pc' = "next"
    /\ f_pc' = "idle" /\ f_attempt' = 0 /\ f_ua' = 1
    /\ f_last_exc' = "None" /\ f_log' = <<>> /\ f_result' = "none"
    /\ UNCHANGED <<mainVars, dedupeVars, normVars, fr_articles>>

\* the loop over items is over
EndFilter ==
    /\ fr_pc = "next"
    /\ fr_i > Len(fr_articles)
    /\ fr_pc' = "done"
    /\ UNCHANGED <<mainVars, dedupeVars, normVars, fetchVars, fr_articles,
                   fr_i, fr_results, fr_filtered, fr_soup, fr_dt, fr_now,
                   fr_ok>>

NextFresh ==
    \/ StartLookup
    \/ FetchAttempt
    \/ FetchRaise
    \/ FinishLookup
    \/ EndFilter

SpecFresh == InitFresh /\ [][NextFresh]_vars


\* is_fresh has returned for the item before fr_i, and its values stand
Decided == fr_pc \in {"next", "done"} /\ fr_i > 1

\* the url is_fresh was last called with
LastUrl == fr_articles[fr_i - 1]

(***************************************************************************)
(* C11: is_fresh returns True exactly when no publication instant was      *)
(* determined or now - instant is at most MAX_AGE_HOURS, the boundary      *)
(* included: an instant 23 hours old is fresh, one 25 hours old is stale.  *)
(***************************************************************************)
C11_FreshnessDecision ==
    Decided =>
      /\ fr_ok <=> \/ fr_dt.kind = "none"
                   \/ fr_now - fr_dt.at <= MAX_AGE_HOURS * 60
      /\ (fr_dt.kind = "time" /\ fr_now - fr_dt.at = 23 * 60) => fr_ok
      /\ (fr_dt.kind = "time" /\ fr_now - fr_dt.at = 25 * 60) => ~ fr_ok
      /\ fr_results[fr_i - 1].ok = fr_ok

\* an instant exactly 24 hours old was found fresh
C11_Witness ==
    /\ Decided
    /\ fr_dt.kind = "time"
    /\ fr_now - fr_dt.at = 24 * 60
    /\ fr_ok

(***************************************************************************)
(* C16: when fetch raises after its last attempt, the exception does not   *)
(* leave extract_published_datetime: the date is the one inferred from the *)
(* url, the item is fresh if there is none, and the loop goes on to the    *)
(* remaining items until every item has been evaluated.                    *)
(***************************************************************************)
C16_LookupFailureContained ==
    /\ fr_pc # "aborted"
    /\ (Decided /\ fr_results[fr_i - 1].raised) =>
         /\ fr_dt.via # "page"
         /\ fr_dt.kind = infer_date_from_url(LastUrl).kind
         /\ fr_dt.at = infer_date_from_url(LastUrl).at
         /\ fr_dt.kind = "none" => fr_ok
    /\ fr_pc = "done" => Len(fr_results) = Len(fr_articles)

\* the lookup of the first item failed and the second item was evaluated
C16_Witness ==
    /\ fr_pc = "done"
    /\ Len(fr_results) = 2
    /\ fr_results[1].raised
    /\ ~ fr_results[2].raised

(***************************************************************************)
(* C19: extract_published_datetime returns the instant of the first        *)
(* location, in probe order, that holds a parseable timestamp; the date of *)
(* the url is used only when fetch failed or no location is parseable; and *)
(* None is returned only when the url matches neither date pattern.        *)
(***************************************************************************)
FirstWins ==
    (fr_soup # <<>> /\ Parseable(fr_soup) # {}) =>
        /\ fr_dt.kind = "time" /\ fr_dt.via = "page"
        /\ \A k \in Parseable(fr_soup) :
             (\A j \in 1..(k - 1) : j \notin Parseable(fr_soup))
                 => fr_dt.at = fr_soup[k].at

UrlOnlyAsFallback ==
    fr_dt.via = "url" => (fr_soup = <<>> \/ Parseable(fr_soup) = {})

C19_NoneOnlyIfNoPattern ==
    Decided =>
      /\ FirstWins
      /\ UrlOnlyAsFallback
      /\ fr_dt.kind = "none" =>
           /\ ~ SearchSlash(LastUrl).found
           /\ ~ SearchDash(LastUrl).found

(***************************************************************************)
(* C19, amended: as above, but None is returned only when neither pattern  *)
(* gives a date of the calendar: each pattern either does not match the    *)
(* url or its leftmost match is not a valid date (month 13, day 40).       *)
(***************************************************************************)
C19_NoneOnlyIfNoValidDate ==
    Decided =>
      /\ FirstWins
      /\ UrlOnlyAsFallback
      /\ fr_dt.kind = "none" =>
           /\ ~ GivesDate(SearchSlash(LastUrl))
           /\ ~ GivesDate(SearchDash(LastUrl))

\* None was returned for a url that matches the first pattern
C19_Witness ==
    /\ Decided
    /\ fr_dt.kind = "none"
    /\ SearchSlash(LastUrl).found

====
